---- MODULE Spec2Model ----
(***************************************************************************)
(* State-machine model of the SIYI gimbal SDK:                             *)
(*   siyi_sdk/utils.py         toInt                                       *)
(*   siyi_sdk/siyi_message.py  SIYIMESSAGE (frame codec, sequence counter) *)
(*   siyi_sdk/siyi_sdk.py      SIYISDK (socket, receive loop, liveness     *)
(*                             loop, pollers, connect / disconnect)        *)
(*                                                                         *)
(* The code works on hexadecimal TEXT (bytes.hex(), string slices), so a   *)
(* hex string is modelled as a sequence of hex digits 0..15 and every      *)
(* slice is modelled with Python's clamping semantics.                     *)
(***************************************************************************)
EXTENDS Integers, Sequences, FiniteSets, TLC

VARIABLES
    out_seq,       \* SIYISDK._out_msg._seq : sequence counter of the outbound codec
    enc,           \* history: the last encodeMsg call (arguments, result, counter after)
    dec,           \* history: the result of the last decodeMsg call on enc.msg
    n_enc,         \* history: number of encodeMsg calls of this run
    records,       \* the cached telemetry records (_att_msg, _fw_msg, ...)
    connected,     \* SIYISDK._connected
    stop,          \* SIYISDK._stop
    last_fw_seq,   \* SIYISDK._last_fw_seq
    last_att_seq,  \* SIYISDK._last_att_seq
    pc,            \* position of each thread (main, recv, conn, info, att, zoom)
    net,           \* datagrams queued on the UDP socket, oldest first
    rx,            \* history: what the calls of bufferCallback received and dispatched
    waited,        \* connect(): TRUE once time() - t0 > maxWaitTime
    probe_ok,      \* history: the last comparison of checkConnection succeeded
    call,          \* history: the last operation called on the codec, and its result
    ctl,           \* setGimbalRotation: its position, arguments and locals
    read_seq       \* encodeMsg of each task: the self._seq it read, -1 when not in it

vars == <<out_seq, enc, dec, n_enc, records, connected, stop, last_fw_seq,
          last_att_seq, pc, net, rx, waited, probe_ok, call, ctl, read_seq>>

codecVars == <<out_seq, enc, dec, n_enc, call>>
sessionVars == <<records, connected, stop, last_fw_seq, last_att_seq, pc, net,
                 rx, waited, probe_ok, ctl, read_seq>>

----------------------------------------------------------------------------
(* Python string primitives on hex text.                                   *)

Min(a, b) == IF a < b THEN a ELSE b

Max(a, b) == IF a > b THEN a ELSE b

\* s[a:b] for 0 <= a, 0 <= b : indices past the end are clamped, never an error.
PySlice(s, a, b) ==
    IF a >= Min(b, Len(s)) THEN << >> ELSE SubSeq(s, a + 1, Min(b, Len(s)))

\* s[a:]
PyFrom(s, a) == PySlice(s, a, Len(s))

\* s[-k:] : the last k characters (the whole string when it is shorter).
PyLast(s, k) == PySlice(s, Max(Len(s) - k, 0), Len(s))

\* s[:-k] : everything but the last k characters.
PyDropLast(s, k) == PySlice(s, 0, Max(Len(s) - k, 0))

\* hex(n)[2:] : the hexadecimal digits of n >= 0, no leading zero.
RECURSIVE HexDigits(_)
HexDigits(n) == IF n < 16 THEN <<n>> ELSE HexDigits(n \div 16) \o <<n % 16>>

\* int("0x" + s, base=16) for a non-empty digit string s.
RECURSIVE HexVal(_)
HexVal(s) ==
    IF s = << >> THEN 0 ELSE 16 * HexVal(SubSeq(s, 1, Len(s) - 1)) + s[Len(s)]

----------------------------------------------------------------------------
(* siyi_message.py : protocol constants.                                   *)

HEADER == <<5, 5, 6, 6>>

CTRL == <<0, 1>>

ZEROS == <<0, 0, 0, 0>>

ABSOLUTE_ZOOM_AUTO_FOCUS == <<0, 15>>
AUTO_FOCUS == <<0, 4>>
CENTER == <<0, 8>>
FUNCTION_FEEDBACK_INFO == <<0, 11>>
GIMBAL_ROTATION_SPEED == <<0, 7>>
MANUAL_FOCUS == <<0, 6>>
MANUAL_ZOOM_AUTO_FOCUS == <<0, 5>>
PHOTO_AND_RECORD == <<0, 12>>
REQUEST_GIMBAL_ATTITUDE == <<0, 13>>
REQUEST_GIMBAL_CAMERA_FIRMWARE == <<0, 1>>
REQUEST_GIMBAL_CAMERA_HARDWARE_ID == <<0, 2>>
REQUEST_GIMBAL_CAMERA_PRESENT_WORKING_MODE == <<1, 9>>
REQUEST_GIMBAL_CONFIGURATION_INFO == <<0, 10>>
REQUEST_MAX_ZOOM_VALUE_IN_PRESENT == <<1, 6>>
REQUEST_ZOOM_VALUE_IN_PRESENT == <<1, 8>>
SEND_CONTROL_ANGLE_TO_GIMBAL == <<0, 14>>

\* 10 bytes: STX+CTRL+Data_len+SEQ+CMD_ID+CRC16, in hex characters.
MINIMUM_DATA_LENGTH == 10 * 2

----------------------------------------------------------------------------
(* The checksum collaborator crc16_str_swap (module crc16_python, outside  *)
(* the sources): a deterministic, order-sensitive function of the hex text *)
(* giving 2 bytes as 4 hex characters, low byte first.                     *)

\* Position-weighted sum of the characters lo..hi of s, by halves.
RECURSIVE CrcAcc(_, _, _)
CrcAcc(s, lo, hi) ==
    IF lo > hi THEN 0
    ELSE IF lo = hi THEN (lo * (s[lo] + 1)) % 65536
    ELSE LET mid == (lo + hi) \div 2
         IN  (CrcAcc(s, lo, mid) + CrcAcc(s, mid + 1, hi)) % 65536

crc16_str_swap(s) ==
    LET c == CrcAcc(s, 1, Len(s))
    IN  <<(c \div 16) % 16, c % 16, c \div 4096, (c \div 256) % 16>>

----------------------------------------------------------------------------
(* SIYIMESSAGE.incrementSEQ(val): the new value of self._seq and the       *)
(* returned sequence text.                                                 *)

\* lines 203-216: the hex text of seq, padded, low byte first.
SeqText(seq) ==
    LET h == HexDigits(seq)
        seq_hex == IF Len(h) = 3 THEN <<0>> \o h
                   ELSE IF Len(h) = 1 THEN <<0, 0, 0>> \o h
                   ELSE h      \* len 2: only seq_str is assigned; len 4, 5: untouched
    IN  PyLast(seq_hex, 2) \o PySlice(seq_hex, 0, 2)

incrementSEQ(val) ==
    IF val > 65535 THEN [seq |-> 0, str |-> ZEROS]
    ELSE IF val < 0 THEN [seq |-> val, str |-> ZEROS]
    ELSE [seq |-> val + 1, str |-> SeqText(val + 1)]

(* SIYIMESSAGE.computeDataLen(data).                                       *)
computeDataLen(data) ==
    LET padded == IF Len(data) % 2 # 0 THEN <<0>> \o data ELSE data
        L == Len(padded) \div 2
        h == HexDigits(L)
        len_hex == IF Len(h) = 3 THEN <<0>> \o h
                   ELSE IF Len(h) = 1 THEN <<0, 0, 0>> \o h
                   ELSE IF Len(h) = 2 THEN <<0, 0>> \o h
                   ELSE ZEROS
    IN  PyLast(len_hex, 2) \o PySlice(len_hex, 0, 2)

(* SIYIMESSAGE.encodeMsg(data, cmd_id) with self._seq = val: the frame and *)
(* the new self._seq.  The second assignment of msg_front (line 339)       *)
(* replaces the one that carries seq.                                      *)
encodeMsg(val, data, cmd_id) ==
    LET inc == incrementSEQ(val)
        data_len == computeDataLen(data)
        msg_front == HEADER \o CTRL \o data_len \o ZEROS \o cmd_id \o data
        crc == crc16_str_swap(msg_front)
    IN  [seq |-> inc.seq, msg |-> msg_front \o crc]

(* SIYIMESSAGE.decodeMsg(msg): valid = FALSE is the None result.           *)
NoDecode == [valid |-> FALSE, data |-> << >>, data_len |-> 0,
             cmd_id |-> << >>, seq |-> 0]

\* Variant of decodeMsg that does not compare the checksum.
decodeMsg_AnyCrc(msg) ==
    IF Len(msg) < MINIMUM_DATA_LENGTH THEN NoDecode
    ELSE LET data_len == HexVal(PySlice(msg, 8, 10) \o PySlice(msg, 6, 8))
             char_len == data_len * 2
         IN  [valid |-> TRUE,
              data |-> IF data_len > 0 THEN PySlice(msg, 16, 16 + char_len)
                       ELSE << >>,
              data_len |-> data_len,
              cmd_id |-> PySlice(msg, 14, 16),
              seq |-> HexVal(PySlice(msg, 12, 14) \o PySlice(msg, 10, 12))]

decodeMsg(msg) ==
    IF Len(msg) < MINIMUM_DATA_LENGTH THEN NoDecode
    ELSE LET data_len == HexVal(PySlice(msg, 8, 10) \o PySlice(msg, 6, 8))
             char_len == data_len * 2
             msg_crc == PyLast(msg, 4)
             payload == PyDropLast(msg, 4)
         IN  IF crc16_str_swap(payload) # msg_crc THEN NoDecode
             ELSE [valid |-> TRUE,
                   data |-> IF data_len > 0 THEN PySlice(msg, 16, 16 + char_len)
                            ELSE << >>,
                   data_len |-> data_len,
                   cmd_id |-> PySlice(msg, 14, 16),
                   seq |-> HexVal(PySlice(msg, 12, 14) \o PySlice(msg, 10, 12))]

----------------------------------------------------------------------------
(* utils.py toInt(hexval): 16-bit two's complement value of a hex string.  *)
(* int("", 16) raises ValueError: callers test the string first (Conv).    *)

\* utils.py toHex(intval, nbits): two's complement hex text, padded to the
\* width of nbits when it is shorter.
toHex(intval, nbits) ==
    LET h == HexDigits((intval + 2 ^ nbits) % (2 ^ nbits))
    IN  IF Len(h) = 1 /\ nbits = 8 THEN <<0>> \o h
        ELSE IF Len(h) = 1 /\ nbits = 16 THEN <<0, 0, 0>> \o h
        ELSE IF Len(h) = 2 /\ nbits = 16 THEN <<0, 0>> \o h
        ELSE IF Len(h) = 3 /\ nbits = 16 THEN <<0>> \o h
        ELSE h

toInt(hexval) ==
    LET val == HexVal(hexval) IN IF val >= 32768 THEN val - 65536 ELSE val

----------------------------------------------------------------------------
(* The cached telemetry records, as SIYISDK.__init__ creates them from the *)
(* class defaults of siyi_message.py.  Encodings: False/True are 0/1 (as   *)
(* in Python), None is -1 (no decoder produces a negative info_type), and  *)
(* every value the code divides by 10 is kept in tenths, the wire's unit   *)
(* (so the defaults -1 and -1.0 of level and zoom_float are -10).          *)

Sentinel ==
    [absoluteZoom_msg |-> [seq |-> 0, success |-> -1],
     att_msg |-> [seq |-> 0, stamp |-> 0, yaw |-> 0, pitch |-> 0, roll |-> 0,
                  yaw_speed |-> 0, pitch_speed |-> 0, roll_speed |-> 0],
     center_msg |-> [seq |-> 0, success |-> 0],
     currentZoomValue_msg |-> [seq |-> 0, zoom_int |-> -1, zoom_float |-> -10],
     autoFocus_msg |-> [seq |-> 0, success |-> 0],
     gimbalSpeed_msg |-> [seq |-> 0, success |-> 0],
     fw_msg |-> [seq |-> 0, code_board_ver |-> << >>,
                 gimbal_firmware_ver |-> << >>, zoom_firmware_ver |-> << >>],
     funcFeedback_msg |-> [seq |-> 0, info_type |-> -1],
     hw_msg |-> [seq |-> 0, id |-> << >>],
     manualFocus_msg |-> [seq |-> 0, success |-> 0],
     manualZoom_msg |-> [seq |-> 0, level |-> -10],
     maxZoomValue_msg |-> [seq |-> 0, zoom_max_int |-> 0, zoom_max_float |-> 0],
     motionMode_msg |-> [seq |-> 0, mode |-> -1],
     mountDir_msg |-> [seq |-> 0, dir |-> -1],
     record_msg |-> [seq |-> 0, state |-> -1],
     sendControlAngleToGimbal_msg |->
         [seq |-> 0, yaw |-> 0, pitch |-> 0, current_yaw |-> 0,
          current_pitch |-> 0, current_roll |-> 0]]

\* Variant of resetVars that leaves the attitude record as it is.
resetVars_KeepAtt(R) ==
    [Sentinel EXCEPT
        !.sendControlAngleToGimbal_msg = R.sendControlAngleToGimbal_msg,
        !.att_msg = R.att_msg]

(* SIYISDK.resetVars: fifteen records are created anew;                    *)
(* _sendControlAngleToGimbal_msg is not among them.                        *)
resetVars(R) ==
    [Sentinel EXCEPT
        !.sendControlAngleToGimbal_msg = R.sendControlAngleToGimbal_msg]

----------------------------------------------------------------------------
(* The parse functions.  Each body is a try block of assignments to one    *)
(* record: an assignment whose right-hand side raises (int() of an empty   *)
(* string) ends the block, and the assignments before it stay done.        *)

\* One assignment  rec.f = v : ok is FALSE when evaluating v raises.
Set(f, v) == [f |-> f, ok |-> TRUE, v |-> v]

\* rec.f = toInt(s) / 10.0
ConvS(f, s) == [f |-> f, ok |-> s # << >>, v |-> toInt(s)]

\* rec.f = int("0x" + s, base=16)
ConvU(f, s) == [f |-> f, ok |-> s # << >>, v |-> HexVal(s)]

\* rec.f = bool(int("0x" + s, base=16))
ConvB(f, s) == [f |-> f, ok |-> s # << >>, v |-> IF HexVal(s) # 0 THEN 1 ELSE 0]

RECURSIVE RunAssigns(_, _)
RunAssigns(rec, assigns) ==
    IF assigns = << >> \/ ~Head(assigns).ok THEN rec
    ELSE RunAssigns([rec EXCEPT ![Head(assigns).f] = Head(assigns).v],
                    Tail(assigns))

\* msg[4i+2:4i+4] + msg[4i:4i+2] : the i-th little-endian 16-bit word.
Word(msg, i) == PySlice(msg, 4 * i + 2, 4 * i + 4) \o PySlice(msg, 4 * i, 4 * i + 2)

parseRequestFirmwareMsg(R, msg, seq) ==
    [R EXCEPT !.fw_msg = RunAssigns(@,
        <<Set("gimbal_firmware_ver", PySlice(msg, 8, 16)), Set("seq", seq)>>)]

parseRequestHardwareIDMsg(R, msg, seq) ==
    [R EXCEPT !.hw_msg = RunAssigns(@, <<Set("seq", seq), Set("id", msg)>>)]

parseRequestGimbalAttitudeMsg(R, msg, seq) ==
    [R EXCEPT !.att_msg = RunAssigns(@,
        <<Set("seq", seq), ConvS("yaw", Word(msg, 0)), ConvS("pitch", Word(msg, 1)),
          ConvS("roll", Word(msg, 2)), ConvS("yaw_speed", Word(msg, 3)),
          ConvS("pitch_speed", Word(msg, 4)), ConvS("roll_speed", Word(msg, 5))>>)]

parseGimbalConfigurationInfoMsg(R, msg, seq) ==
    LET state == PySlice(msg, 6, 8)
        mode == PySlice(msg, 8, 10)
        dir == PySlice(msg, 10, 12)
        R0 == [R EXCEPT !.record_msg.seq = seq, !.mountDir_msg.seq = seq,
                        !.motionMode_msg.seq = seq]
        R1 == [R0 EXCEPT !.record_msg.state = HexVal(state)]
        R2 == [R1 EXCEPT !.motionMode_msg.mode = HexVal(mode)]
        R3 == [R2 EXCEPT !.mountDir_msg.dir = HexVal(dir)]
    IN  IF state = << >> THEN R0
        ELSE IF mode = << >> THEN R1
        ELSE IF dir = << >> THEN R2
        ELSE R3

parseAutoFocusMsg(R, msg, seq) ==
    [R EXCEPT !.autoFocus_msg = RunAssigns(@,
        <<Set("seq", seq), ConvB("success", msg)>>)]

parseZoomMsg(R, msg, seq) ==
    [R EXCEPT !.manualZoom_msg = RunAssigns(@,
        <<Set("seq", seq), ConvU("level", Word(msg, 0))>>)]

parseAbsoluteZoomMsg(R, msg, seq) ==
    [R EXCEPT !.absoluteZoom_msg = RunAssigns(@,
        <<Set("seq", seq), ConvB("success", msg)>>)]

parseRequestMaxZoomvalueMsg(R, msg, seq) ==
    [R EXCEPT !.maxZoomValue_msg = RunAssigns(@,
        <<Set("seq", seq), ConvU("zoom_max_int", Word(msg, 0)),
          ConvU("zoom_max_float", Word(msg, 0))>>)]

parseManualFocusMsg(R, msg, seq) ==
    [R EXCEPT !.manualFocus_msg = RunAssigns(@,
        <<Set("seq", seq), ConvB("success", msg)>>)]

parseGimbalSpeedMsg(R, msg, seq) ==
    [R EXCEPT !.gimbalSpeed_msg = RunAssigns(@,
        <<Set("seq", seq), ConvB("success", msg)>>)]

parseGimbalCenterMsg(R, msg, seq) ==
    [R EXCEPT !.center_msg = RunAssigns(@,
        <<Set("seq", seq), ConvB("success", msg)>>)]

parseFunctionFeedbackMsg(R, msg, seq) ==
    [R EXCEPT !.funcFeedback_msg = RunAssigns(@,
        <<Set("seq", seq), ConvU("info_type", msg)>>)]

parseRequestCurrentZoomValueMsg(R, msg, seq) ==
    [R EXCEPT !.currentZoomValue_msg = RunAssigns(@,
        <<Set("seq", seq), ConvU("zoom_int", PySlice(msg, 0, 2)),
          ConvU("zoom_float", PySlice(msg, 2, 4))>>)]

\* Writes _att_msg.  bufferCallback passes cmd_id (a string) as seq.
parseSendControlAngleToGimbalMsg(R, msg, seq) ==
    [R EXCEPT !.att_msg = RunAssigns(@,
        <<Set("seq", seq), ConvS("yaw", Word(msg, 0)), ConvS("pitch", Word(msg, 1))>>)]

\* The seq fields of the records the parse function of cmd_id writes.
WrittenSeqs(R, cmd_id) ==
    IF cmd_id = ABSOLUTE_ZOOM_AUTO_FOCUS THEN {R.absoluteZoom_msg.seq}
    ELSE IF cmd_id = AUTO_FOCUS THEN {R.autoFocus_msg.seq}
    ELSE IF cmd_id = CENTER THEN {R.center_msg.seq}
    ELSE IF cmd_id = FUNCTION_FEEDBACK_INFO THEN {R.funcFeedback_msg.seq}
    ELSE IF cmd_id = GIMBAL_ROTATION_SPEED THEN {R.gimbalSpeed_msg.seq}
    ELSE IF cmd_id = MANUAL_FOCUS THEN {R.manualFocus_msg.seq}
    ELSE IF cmd_id = MANUAL_ZOOM_AUTO_FOCUS THEN {R.manualZoom_msg.seq}
    ELSE IF cmd_id = REQUEST_GIMBAL_ATTITUDE THEN {R.att_msg.seq}
    ELSE IF cmd_id = REQUEST_GIMBAL_CAMERA_FIRMWARE THEN {R.fw_msg.seq}
    ELSE IF cmd_id = REQUEST_GIMBAL_CAMERA_HARDWARE_ID THEN {R.hw_msg.seq}
    ELSE IF cmd_id = REQUEST_GIMBAL_CONFIGURATION_INFO
    THEN {R.record_msg.seq, R.mountDir_msg.seq, R.motionMode_msg.seq}
    ELSE IF cmd_id = REQUEST_MAX_ZOOM_VALUE_IN_PRESENT THEN {R.maxZoomValue_msg.seq}
    ELSE IF cmd_id = REQUEST_ZOOM_VALUE_IN_PRESENT THEN {R.currentZoomValue_msg.seq}
    ELSE IF cmd_id = SEND_CONTROL_ANGLE_TO_GIMBAL THEN {R.att_msg.seq}
    ELSE {}

\* parsePhotoAndRecordMsg and parseRequestPresentWorkingModeMsg have no try
\* block: their single statement, raise NotImplemented, raises.
RaisingCmds == {PHOTO_AND_RECORD, REQUEST_GIMBAL_CAMERA_PRESENT_WORKING_MODE}

\* A Python string used where the other callers pass an int: it equals no
\* sequence number, so it is given a value outside 0..65535.
StrAsSeq(s) == 70000 + HexVal(s)

\* Variant of the chain that parses nothing and raises on a command id no
\* parse function handles.
Dispatch_Strict(R, cmd_id, data, seq) ==
    [rec |-> R, raised |-> WrittenSeqs(R, cmd_id) = {}]

(* The if/elif chain of bufferCallback (lines 318-351): the records after  *)
(* the parse function of cmd_id has run, and whether it raised.            *)
Dispatch(R, cmd_id, data, seq) ==
    IF cmd_id \in RaisingCmds THEN [rec |-> R, raised |-> TRUE]
    ELSE [raised |-> FALSE,
          rec |->
            IF cmd_id = ABSOLUTE_ZOOM_AUTO_FOCUS THEN parseAbsoluteZoomMsg(R, data, seq)
            ELSE IF cmd_id = AUTO_FOCUS THEN parseAutoFocusMsg(R, data, seq)
            ELSE IF cmd_id = CENTER THEN parseGimbalCenterMsg(R, data, seq)
            ELSE IF cmd_id = FUNCTION_FEEDBACK_INFO
                 THEN parseFunctionFeedbackMsg(R, data, seq)
            ELSE IF cmd_id = GIMBAL_ROTATION_SPEED THEN parseGimbalSpeedMsg(R, data, seq)
            ELSE IF cmd_id = MANUAL_FOCUS THEN parseManualFocusMsg(R, data, seq)
            ELSE IF cmd_id = MANUAL_ZOOM_AUTO_FOCUS THEN parseZoomMsg(R, data, seq)
            ELSE IF cmd_id = REQUEST_GIMBAL_ATTITUDE
                 THEN parseRequestGimbalAttitudeMsg(R, data, seq)
            ELSE IF cmd_id = REQUEST_GIMBAL_CAMERA_FIRMWARE
                 THEN parseRequestFirmwareMsg(R, data, seq)
            ELSE IF cmd_id = REQUEST_GIMBAL_CAMERA_HARDWARE_ID
                 THEN parseRequestHardwareIDMsg(R, data, seq)
            ELSE IF cmd_id = REQUEST_GIMBAL_CONFIGURATION_INFO
                 THEN parseGimbalConfigurationInfoMsg(R, data, seq)
            ELSE IF cmd_id = REQUEST_MAX_ZOOM_VALUE_IN_PRESENT
                 THEN parseRequestMaxZoomvalueMsg(R, data, seq)
            ELSE IF cmd_id = REQUEST_ZOOM_VALUE_IN_PRESENT
                 THEN parseRequestCurrentZoomValueMsg(R, data, seq)
            ELSE IF cmd_id = SEND_CONTROL_ANGLE_TO_GIMBAL
                 THEN parseSendControlAngleToGimbalMsg(R, data, StrAsSeq(cmd_id))
            ELSE R]

(* The while loop of bufferCallback (lines 287-351) on the hex text of one *)
(* datagram: the records after it, whether a parse function raised, and    *)
(* (history) the frames decodeMsg accepted, in order.                      *)
RECURSIVE Scan(_, _, _)
Scan(R, buff_str, decoded) ==
    IF Len(buff_str) < MINIMUM_DATA_LENGTH
    THEN [rec |-> R, raised |-> FALSE, decoded |-> decoded]
    ELSE IF PySlice(buff_str, 0, 4) # HEADER
    THEN Scan(R, PyFrom(buff_str, 1), decoded)
    ELSE LET data_len == HexVal(PySlice(buff_str, 8, 10) \o PySlice(buff_str, 6, 8))
             char_len == data_len * 2
             packet == PySlice(buff_str, 0, MINIMUM_DATA_LENGTH + char_len)
             rest == PyFrom(buff_str, MINIMUM_DATA_LENGTH + char_len)
             val == decodeMsg(packet)
             d == Dispatch(R, val.cmd_id, val.data, val.seq)
             got == Append(decoded,
                           [cmd_id |-> val.cmd_id, data |-> val.data, seq |-> val.seq])
         IN  IF Len(buff_str) < MINIMUM_DATA_LENGTH + char_len
             THEN [rec |-> R, raised |-> FALSE, decoded |-> decoded]
             ELSE IF ~val.valid THEN Scan(R, rest, decoded)
             ELSE IF d.raised THEN [rec |-> d.rec, raised |-> TRUE, decoded |-> got]
             ELSE Scan(d.rec, rest, got)

bufferCallback(R, buff) == Scan(R, buff, << >>)

----------------------------------------------------------------------------
(* Message definitions of SIYIMESSAGE: the payload each one builds and the *)
(* result of encodeMsg on it, with self._seq = val.                        *)

WithData(val, data, cmd_id) ==
    LET e == encodeMsg(val, data, cmd_id)
    IN  [seq |-> e.seq, msg |-> e.msg, data |-> data, cmd_id |-> cmd_id]

absoluteZoomMsg(val, zoom_level, frac_zoom_level) ==
    LET z1 == IF zoom_level > 30 THEN 30 ELSE zoom_level
        z2 == IF z1 < 1 THEN 1 ELSE z1
        z3 == IF frac_zoom_level > 9 THEN 9 ELSE z2      \* line 366 assigns zoom_level
        z4 == IF frac_zoom_level < 0 THEN 0 ELSE z3      \* line 368 assigns zoom_level
    IN  WithData(val, toHex(z4, 8) \o toHex(frac_zoom_level, 8),
                 ABSOLUTE_ZOOM_AUTO_FOCUS)

gimbalSpeedMsg(val, yaw_speed, pitch_speed) ==
    LET y1 == IF yaw_speed > 100 THEN 100 ELSE yaw_speed
        y2 == IF y1 < -100 THEN -100 ELSE y1
        p1 == IF pitch_speed > 100 THEN 100 ELSE pitch_speed
        p2 == IF p1 < -100 THEN -100 ELSE p1
    IN  WithData(val, toHex(y2, 8) \o toHex(p2, 8), GIMBAL_ROTATION_SPEED)

gimbalAttitudeMsg(val) == WithData(val, << >>, REQUEST_GIMBAL_ATTITUDE)

centerGimbalMsg(val) == WithData(val, <<0, 1>>, CENTER)

----------------------------------------------------------------------------
(* The codec on its own: encodeMsg calls on the outbound codec, each       *)
(* followed (or not) by decodeMsg of the frame it produced.                *)

\* Payloads handed to encodeMsg: none, one byte, two bytes (toHex pairs),
\* and a string with an odd number of hex characters.
Payloads == {<< >>, <<0, 1>>, <<15, 15>>, <<6, 4, 9, 12>>, <<10, 11, 12>>}

CmdIds == {CENTER, REQUEST_GIMBAL_CAMERA_FIRMWARE}

\* Values self._seq holds at the start of a run: 0 at construction, the
\* others after that many earlier encodeMsg calls.
SeqStarts == {0, 14, 254, 4094, 65534}

MaxEncodes == 2

NoEnc == [called |-> FALSE, before |-> 0, data |-> << >>, cmd_id |-> << >>,
          seq_str |-> << >>, msg |-> << >>]

NoDec == [done |-> FALSE, res |-> NoDecode]

\* op: the operation; a, b: its integer arguments; ok: it returned a result
\* (a request: it returned True); out: the text it returned or sent.
NoCall == [op |-> "none", a |-> 0, b |-> 0, ok |-> FALSE, out |-> << >>,
           raised |-> FALSE, sent |-> FALSE]

EncodeMsg ==
    /\ n_enc < MaxEncodes
    /\ \E data \in Payloads, cmd_id \in CmdIds :
          LET r == encodeMsg(out_seq, data, cmd_id)
          IN  /\ out_seq' = r.seq
              /\ enc' = [called |-> TRUE, before |-> out_seq, data |-> data,
                         cmd_id |-> cmd_id,
                         seq_str |-> incrementSEQ(out_seq).str, msg |-> r.msg]
    /\ dec' = NoDec
    /\ n_enc' = n_enc + 1
    /\ call' = [NoCall EXCEPT !.op = "encodeMsg", !.ok = TRUE, !.out = enc'.msg]
    /\ UNCHANGED sessionVars

DecodeMsg ==
    /\ enc.called
    /\ ~dec.done
    /\ dec' = [done |-> TRUE, res |-> decodeMsg(enc.msg)]
    /\ call' = [NoCall EXCEPT !.op = "decodeMsg", !.ok = decodeMsg(enc.msg).valid]
    /\ UNCHANGED <<out_seq, enc, n_enc>>
    /\ UNCHANGED sessionVars

\* The history record of the encodeMsg call, made with _seq = val, that built m.
Encoded(val, m) ==
    [called |-> TRUE, before |-> val, data |-> m.data, cmd_id |-> m.cmd_id,
     seq_str |-> incrementSEQ(val).str, msg |-> m.msg]

\* Arguments given to requestAbsoluteZoom and requestGimbalSpeed.
ZoomLevels == {1, 30, 31, 45}

ZoomFracs == {0, 12}

SpeedPairs == {<<150, -150>>, <<-150, 100>>, <<0, 0>>, <<-100, 101>>}

(* SIYISDK.requestAbsoluteZoom(zoom_level, frac_zoom_level): out-of-range   *)
(* arguments are refused (line 366); the others are encoded and sent.      *)
RequestAbsoluteZoom ==
    /\ n_enc < MaxEncodes
    /\ \E z \in ZoomLevels, f \in ZoomFracs :
          IF z \notin 1..30 \/ f \notin 0..9
          THEN /\ call' = [NoCall EXCEPT !.op = "requestAbsoluteZoom",
                                         !.a = z, !.b = f]
               /\ UNCHANGED <<out_seq, enc, dec, n_enc>>
          ELSE LET m == absoluteZoomMsg(out_seq, z, f)
               IN  /\ out_seq' = m.seq
                   /\ enc' = Encoded(out_seq, m)
                   /\ dec' = NoDec
                   /\ n_enc' = n_enc + 1
                   /\ call' = [NoCall EXCEPT !.op = "requestAbsoluteZoom", !.a = z, !.b = f,
                          !.ok = TRUE, !.out = m.msg]
    /\ UNCHANGED sessionVars

(* SIYISDK.requestGimbalSpeed(yaw_speed, pitch_speed).                      *)
RequestGimbalSpeed ==
    /\ n_enc < MaxEncodes
    /\ \E sp \in SpeedPairs :
          LET y == sp[1]
              p == sp[2]
              m == gimbalSpeedMsg(out_seq, y, p)
          IN  /\ out_seq' = m.seq
              /\ enc' = Encoded(out_seq, m)
              /\ call' = [NoCall EXCEPT !.op = "requestGimbalSpeed", !.a = y, !.b = p,
                          !.ok = TRUE, !.out = m.msg]
    /\ dec' = NoDec
    /\ n_enc' = n_enc + 1
    /\ UNCHANGED sessionVars

\* Payload sizes, in hex characters, handed to computeDataLen.
LenChars == {0, 1, 2, 3, 510, 512, 8190, 8192}

\* A payload of each size.
LongPayloads == [n \in LenChars |-> [i \in 1..n |-> 0]]

(* SIYIMESSAGE.computeDataLen(data) on a payload of n hex characters.      *)
ComputeDataLen ==
    /\ \E n \in LenChars :
          call' = [NoCall EXCEPT !.op = "computeDataLen", !.a = n, !.ok = TRUE,
                                 !.out = computeDataLen(LongPayloads[n])]
    /\ UNCHANGED <<out_seq, enc, dec, n_enc>>
    /\ UNCHANGED sessionVars

\* The hex digit d with the bit of weight b (1, 2, 4 or 8) inverted.
FlipDigit(d, b) == IF (d \div b) % 2 = 1 THEN d - b ELSE d + b

\* Characters of a frame hit in transit: header, control, both bytes of the
\* length, sequence, command id.
CorruptAt == {1, 5, 7, 9, 11, 15}

\* The text msg with one bit of its i-th character inverted.
FlipBit(msg, i, b) == [msg EXCEPT ![i] = FlipDigit(msg[i], b)]

(* SIYIMESSAGE.decodeMsg on the last encoded frame after one bit before    *)
(* its checksum field was inverted in transit.                             *)
DecodeCorrupted ==
    /\ enc.called
    /\ \E i \in CorruptAt, b \in {1, 8} :
          call' = [NoCall EXCEPT !.op = "decodeCorrupted", !.a = i, !.b = b,
                                 !.ok = decodeMsg(FlipBit(enc.msg, i, b)).valid]
    /\ UNCHANGED <<out_seq, enc, dec, n_enc>>
    /\ UNCHANGED sessionVars

\* data and cmd_id of the message definitions that take no argument
\* (siyi_message.py, autoFocusMsg to zoomOutMsg).
FixedRequests ==
    {<<<<0, 1>>, AUTO_FOCUS>>, <<<< >>, REQUEST_GIMBAL_ATTITUDE>>,
     <<<< >>, REQUEST_GIMBAL_CAMERA_FIRMWARE>>,
     <<<< >>, REQUEST_GIMBAL_CAMERA_HARDWARE_ID>>,
     <<<< >>, REQUEST_GIMBAL_CAMERA_PRESENT_WORKING_MODE>>,
     <<<<0, 1>>, CENTER>>, <<<<15, 15>>, MANUAL_FOCUS>>,
     <<<< >>, REQUEST_ZOOM_VALUE_IN_PRESENT>>,
     <<<< >>, REQUEST_GIMBAL_CONFIGURATION_INFO>>,
     <<<<0, 0>>, MANUAL_FOCUS>>, <<<<0, 4>>, PHOTO_AND_RECORD>>,
     <<<<0, 5>>, PHOTO_AND_RECORD>>, <<<< >>, FUNCTION_FEEDBACK_INFO>>,
     <<<<0, 3>>, PHOTO_AND_RECORD>>, <<<<0, 1>>, MANUAL_FOCUS>>,
     <<<< >>, REQUEST_MAX_ZOOM_VALUE_IN_PRESENT>>, <<<<0, 2>>, PHOTO_AND_RECORD>>,
     <<<<0, 0>>, PHOTO_AND_RECORD>>, <<<<0, 0>>, MANUAL_ZOOM_AUTO_FOCUS>>,
     <<<<0, 1>>, MANUAL_ZOOM_AUTO_FOCUS>>, <<<<15, 15>>, MANUAL_ZOOM_AUTO_FOCUS>>}

\* The messages the request operations build when _seq is val: the fixed
\* ones, absolute zoom, rotation speed and the angle command.
RequestFrames(val) ==
    {WithData(val, r[1], r[2]) : r \in FixedRequests}
    \cup {absoluteZoomMsg(val, z, f) : z \in {1, 30}, f \in {0, 9}}
    \cup {gimbalSpeedMsg(val, sp[1], sp[2]) : sp \in SpeedPairs}
    \cup {WithData(val, toHex(a[1], 16) \o toHex(a[2], 16), SEND_CONTROL_ANGLE_TO_GIMBAL) :
             a \in {<<0, 0>>, <<-270, 25>>, <<135, -90>>}}

\* Variant of sendMsg that reports success whatever the socket did.
sendMsg_AlwaysTrue(msg, sock_ok) ==
    [raised |-> Len(msg) % 2 = 1,
     ret |-> Len(msg) % 2 = 0,
     sent |-> Len(msg) % 2 = 0 /\ sock_ok]

(* SIYISDK.sendMsg: bytes.fromhex, outside the try block, raises on a text *)
(* with an odd number of hex digits; an exception of sendto is caught.     *)
sendMsg(msg, sock_ok) ==
    [raised |-> Len(msg) % 2 = 1,
     ret |-> Len(msg) % 2 = 0 /\ sock_ok,
     sent |-> Len(msg) % 2 = 0 /\ sock_ok]

(* A request operation of SIYISDK: the message definition calls encodeMsg, *)
(* which advances _seq and returns "" when crc16_str_swap returns None     *)
(* (lines 345-351); the result goes to sendMsg.  call.a, call.b: whether   *)
(* sendto and the checksum succeeded.                                      *)
RequestOp ==
    /\ n_enc < MaxEncodes
    /\ \E m \in RequestFrames(out_seq), crc_ok \in BOOLEAN, sock_ok \in BOOLEAN :
          LET msg == IF crc_ok THEN m.msg ELSE << >>
              s == sendMsg(msg, sock_ok)
          IN  /\ out_seq' = m.seq
              /\ call' = [NoCall EXCEPT !.op = "request",
                                        !.a = IF sock_ok THEN 1 ELSE 0,
                                        !.b = IF crc_ok THEN 1 ELSE 0,
                                        !.ok = s.ret, !.out = msg,
                                        !.raised = s.raised, !.sent = s.sent]
    /\ n_enc' = n_enc + 1
    /\ UNCHANGED <<enc, dec>>
    /\ UNCHANGED sessionVars

(* SIYIMESSAGE.absoluteZoomMsg(zoom_level, frac_zoom_level) called on the *)
(* codec itself, with arguments inside and outside their ranges.           *)
AbsoluteZoomMsg ==
    /\ n_enc < MaxEncodes
    /\ \E z \in {0, 1, 5, 30, 45}, f \in {-1, 0, 9, 12} :
          LET m == absoluteZoomMsg(out_seq, z, f)
          IN  /\ out_seq' = m.seq
              /\ call' = [NoCall EXCEPT !.op = "absoluteZoomMsg", !.a = z, !.b = f,
                                        !.ok = TRUE, !.out = m.msg]
    /\ n_enc' = n_enc + 1
    /\ UNCHANGED <<enc, dec>>
    /\ UNCHANGED sessionVars

----------------------------------------------------------------------------
(* The session: SIYISDK.__init__ and the threads it creates.               *)
(*                                                                         *)
(* pc.main : idle, connecting (inside connect), returned_true,             *)
(*           returned_false, raised (connect left by an exception)         *)
(* pc.recv : idle (not started), run (top of recvLoop), wait (in           *)
(*           recvfrom), done (loop left on _stop), timeout / raised        *)
(*           (thread ended by socket.timeout / by a parse function)        *)
(* pc.conn : idle, top (top of connectionLoop), probe_sleep (request sent, *)
(*           in sleep(0.1)), remember (before line 167), done              *)
(* pc.info, pc.att, pc.zoom : idle, top, done                              *)

NoRx == [buff |-> << >>, decoded |-> << >>, raised |-> FALSE]

\* setGimbalRotation is not running.  yaw, pitch: its arguments (degrees);
\* yaw_err, pitch_err: its locals (tenths of a degree); cmd: the last frame
\* it sent; n: the frames it sent; iter: the loop iterations it began;
\* stale: the outcome of the test of line 988 in the current iteration.
\* pc: idle, loop (line 987), check (988), remember (993), error (995),
\* decide (1001), returned (left before the loop), reached (left by break).
NoCmd == [cmd_id |-> << >>, data |-> << >>]

\* The threads that call request operations: the liveness loop, the three
\* pollers and the caller.
Tasks == {"conn", "info", "att", "zoom", "main"}

\* No task is inside encodeMsg.
NoRead == [t \in Tasks |-> -1]

NoCtl == [pc |-> "idle", yaw |-> 0, pitch |-> 0, yaw_err |-> 0, pitch_err |-> 0,
          cmd |-> NoCmd, n |-> 0, iter |-> 0, stale |-> FALSE]

CodecInit ==
    /\ out_seq = 0
    /\ enc = NoEnc
    /\ dec = NoDec
    /\ n_enc = 0
    /\ call = NoCall

SessionInit ==
    /\ records = Sentinel
    /\ connected = FALSE
    /\ stop = FALSE
    /\ last_fw_seq = 0
    /\ last_att_seq = -1
    /\ pc = [main |-> "idle", recv |-> "idle", conn |-> "idle",
             info |-> "idle", att |-> "idle", zoom |-> "idle"]
    /\ net = << >>
    /\ rx = NoRx
    /\ waited = FALSE
    /\ probe_ok = FALSE
    /\ ctl = NoCtl
    /\ read_seq = NoRead

\* Requests sent in one run (each one advances the outbound counter).
MaxSends == 3

\* The caller is outside connect() and may call into the session.
Callable == pc.main \in {"idle", "returned_true", "returned_false"}

(* SIYISDK.disconnect on the state S = [stop, connected, records].         *)
disconnect(S) ==
    [stop |-> TRUE, connected |-> FALSE, records |-> resetVars(S.records)]

Session == [stop |-> stop, connected |-> connected, records |-> records]

Disconnect ==
    /\ Callable
    /\ stop' = disconnect(Session).stop
    /\ connected' = disconnect(Session).connected
    /\ records' = disconnect(Session).records
    /\ UNCHANGED <<last_fw_seq, last_att_seq, pc, net, rx, waited, probe_ok, read_seq>>
    /\ UNCHANGED <<codecVars, ctl>>

(* SIYISDK.connect, lines 136-138: Thread.start() raises RuntimeError on a *)
(* thread that was started before.                                         *)
Connect ==
    /\ Callable
    /\ IF pc.recv # "idle"
       THEN /\ pc' = [pc EXCEPT !.main = "raised"]
            /\ UNCHANGED waited
       ELSE /\ pc' = [pc EXCEPT !.main = "connecting", !.recv = "run", !.conn = "top"]
            /\ waited' = FALSE
    /\ UNCHANGED <<records, connected, stop, last_fw_seq, last_att_seq, net, rx,
                   probe_ok, read_seq>>
    /\ UNCHANGED <<codecVars, ctl>>

\* time() - t0 passes maxWaitTime.
Tick ==
    /\ pc.main = "connecting"
    /\ ~waited
    /\ waited' = TRUE
    /\ UNCHANGED <<records, connected, stop, last_fw_seq, last_att_seq, pc, net, rx,
                   probe_ok, read_seq>>
    /\ UNCHANGED <<codecVars, ctl>>

(* SIYISDK.connect, one turn of its loop (lines 139-148) that leaves it.   *)
ConnectPoll ==
    /\ pc.main = "connecting"
    /\ \/ /\ connected
          /\ pc' = [pc EXCEPT !.main = "returned_true", !.info = "top",
                              !.att = "top", !.zoom = "top"]
          /\ UNCHANGED <<records, connected, stop>>
       \/ /\ ~connected
          /\ waited
          /\ stop' = disconnect(Session).stop
          /\ connected' = disconnect(Session).connected
          /\ records' = disconnect(Session).records
          /\ pc' = [pc EXCEPT !.main = "returned_false"]
    /\ UNCHANGED <<last_fw_seq, last_att_seq, net, rx, waited, probe_ok, read_seq>>
    /\ UNCHANGED <<codecVars, ctl>>

\* Variant of the stop branch that leaves _connected as it is.
ConnStop_KeepFlag ==
    /\ pc.conn = "top"
    /\ stop
    /\ records' = resetVars(records)
    /\ pc' = [pc EXCEPT !.conn = "done"]
    /\ UNCHANGED <<connected, stop, last_fw_seq, last_att_seq, net, rx, waited, probe_ok, read_seq>>
    /\ UNCHANGED <<codecVars, ctl>>

(* SIYISDK.connectionLoop, lines 180-186.                                  *)
ConnStop ==
    /\ pc.conn = "top"
    /\ stop
    /\ connected' = FALSE
    /\ records' = resetVars(records)
    /\ pc' = [pc EXCEPT !.conn = "done"]
    /\ UNCHANGED <<stop, last_fw_seq, last_att_seq, net, rx, waited, probe_ok, read_seq>>
    /\ UNCHANGED <<codecVars, ctl>>

(* A request operation (requestGimbalAttitude, ...): the message is        *)
(* encoded, which advances the outbound counter, and handed to sendMsg.    *)
Request(data, cmd_id) ==
    /\ out_seq < MaxSends
    /\ out_seq' = encodeMsg(out_seq, data, cmd_id).seq
    /\ UNCHANGED <<enc, dec, n_enc, call>>

(* SIYISDK.checkConnection, line 160, reached from connectionLoop.         *)
ConnProbe ==
    /\ pc.conn = "top"
    /\ ~stop
    /\ Request(<< >>, REQUEST_GIMBAL_CAMERA_FIRMWARE)
    /\ pc' = [pc EXCEPT !.conn = "probe_sleep"]
    /\ UNCHANGED <<records, connected, stop, last_fw_seq, last_att_seq, net, rx,
                   waited, probe_ok, read_seq, ctl>>

\* Variant of the condition that does not look at the version string.
probeSucceeds_AnyVersion(fw_msg, last) ==
    fw_msg.seq # last

\* The condition of checkConnection, lines 162-165.
probeSucceeds(fw_msg, last) ==
    fw_msg.seq # last /\ Len(fw_msg.gimbal_firmware_ver) > 0

(* SIYISDK.checkConnection, lines 162-166 and 168-169, after sleep(0.1).   *)
ProbeCompare ==
    /\ pc.conn = "probe_sleep"
    /\ connected' = probeSucceeds(records.fw_msg, last_fw_seq)
    /\ probe_ok' = probeSucceeds(records.fw_msg, last_fw_seq)
    /\ pc' = [pc EXCEPT !.conn = IF probeSucceeds(records.fw_msg, last_fw_seq)
                                 THEN "remember" ELSE "top"]
    /\ UNCHANGED <<records, stop, last_fw_seq, last_att_seq, net, rx, waited, read_seq>>
    /\ UNCHANGED <<codecVars, ctl>>

(* SIYISDK.checkConnection, line 167, then sleep(t) of connectionLoop.     *)
ProbeRemember ==
    /\ pc.conn = "remember"
    /\ last_fw_seq' = records.fw_msg.seq
    /\ pc' = [pc EXCEPT !.conn = "top"]
    /\ UNCHANGED <<records, connected, stop, last_att_seq, net, rx, waited, probe_ok, read_seq>>
    /\ UNCHANGED <<codecVars, ctl>>

(* SIYISDK.recvLoop, line 268: the loop condition.                         *)
RecvTop ==
    /\ pc.recv = "run"
    /\ pc' = [pc EXCEPT !.recv = IF stop THEN "done" ELSE "wait"]
    /\ UNCHANGED <<records, connected, stop, last_fw_seq, last_att_seq, net, rx,
                   waited, probe_ok, read_seq>>
    /\ UNCHANGED <<codecVars, ctl>>

(* SIYISDK.bufferCallback: recvfrom returns the oldest datagram (line 276) *)
(* and the loop runs over its hex text.  An exception of a parse function  *)
(* leaves bufferCallback and recvLoop, neither of which catches it.        *)
BufferCallbackStep ==
    /\ pc.recv = "wait"
    /\ net # << >>
    /\ LET r == bufferCallback(records, Head(net))
       IN  /\ records' = r.rec
           /\ rx' = [buff |-> Head(net), decoded |-> r.decoded, raised |-> r.raised]
           /\ pc' = [pc EXCEPT !.recv = IF r.raised THEN "raised" ELSE "run"]
    /\ net' = Tail(net)
    /\ UNCHANGED <<connected, stop, last_fw_seq, last_att_seq, waited, probe_ok, read_seq>>
    /\ UNCHANGED <<codecVars, ctl>>

(* SIYISDK.bufferCallback, line 276: no datagram within _rcv_wait_t, so    *)
(* recvfrom raises socket.timeout; rcvMsg, which catches it, is not used.  *)
RecvTimeout ==
    /\ pc.recv = "wait"
    /\ net = << >>
    /\ pc' = [pc EXCEPT !.recv = "timeout"]
    /\ UNCHANGED <<records, connected, stop, last_fw_seq, last_att_seq, net, rx,
                   waited, probe_ok, read_seq>>
    /\ UNCHANGED <<codecVars, ctl>>

\* Variant of a poller's turn that sends without looking at the flag.
PollerStep_NoGate(t, cmd_id) ==
    /\ pc[t] = "top"
    /\ Request(<< >>, cmd_id)
    /\ UNCHANGED pc
    /\ UNCHANGED <<records, connected, stop, last_fw_seq, last_att_seq, net, rx,
                   waited, probe_ok, read_seq, ctl>>

(* One turn of a telemetry poller's loop.                                  *)
PollerStep(t, cmd_id) ==
    /\ pc[t] = "top"
    /\ IF ~connected
       THEN /\ pc' = [pc EXCEPT ![t] = "done"]
            /\ UNCHANGED codecVars
       ELSE /\ Request(<< >>, cmd_id)
            /\ UNCHANGED pc
    /\ UNCHANGED <<records, connected, stop, last_fw_seq, last_att_seq, net, rx,
                   waited, probe_ok, read_seq, ctl>>

GimbalInfoLoop == PollerStep("info", REQUEST_GIMBAL_CONFIGURATION_INFO)

GimbalAttLoop == PollerStep("att", REQUEST_GIMBAL_ATTITUDE)

GimbalZoomLoop == PollerStep("zoom", REQUEST_ZOOM_VALUE_IN_PRESENT)

Pollers == {"info", "att", "zoom"}

----------------------------------------------------------------------------
(* SIYISDK.setGimbalRotation, called on the caller's thread with the       *)
(* defaults err_thresh = 1.0 and kp = 4.                                   *)

\* Loop iterations of one setGimbalRotation call.
MaxIters == 2

\* Arguments (yaw, pitch) in degrees: reached by the attitudes the device
\* reports, reached in yaw only, far on both axes, the centre, and one
\* beyond each end of the two ranges.
Goals ==
    {<<30, -5>>, <<30, 25>>, <<60, -10>>, <<0, 0>>,
     <<300, 0>>, <<0, 30>>, <<-271, 0>>, <<0, -91>>}

\* err_thresh and kp, in tenths of a degree and as an integer gain.
err_thresh == 10

kp == 4

\* int(x / 10) of Python: truncation toward zero.
IntTenth(x) == IF x >= 0 THEN x \div 10 ELSE -((-x) \div 10)

Abs(x) == IF x >= 0 THEN x ELSE -x

\* Variant of the set point without the gain.
speed_sp_Unscaled(err) == Max(Min(100, IntTenth(err)), -100)

\* Lines 1006-1007 on an error in tenths of a degree.
speed_sp(err) == Max(Min(100, IntTenth(kp * err)), -100)

\* sendMsg of a frame of the controller: the counter advances, the frame
\* leaves through the socket created in __init__.
CtlSend(c, m) == [c EXCEPT !.n = @ + 1, !.cmd = [cmd_id |-> m.cmd_id, data |-> m.data]]

\* Variant of the entry without the range checks.
entry_NoCheck(yaw, pitch) ==
    IF yaw = 0 /\ pitch = 0 THEN "centre" ELSE "loop"

\* Variant of the entry without the centre case.
entry_NoCentre(yaw, pitch) ==
    IF pitch > 25 \/ pitch < -90 \/ yaw > 270 \/ yaw < -270 THEN "reject" ELSE "loop"

\* Lines 972-984: which way setGimbalRotation(yaw, pitch) takes.
entry(yaw, pitch) ==
    IF pitch > 25 \/ pitch < -90 THEN "reject"
    ELSE IF yaw > 270 \/ yaw < -270 THEN "reject"
    ELSE IF yaw = 0 /\ pitch = 0 THEN "centre"
    ELSE "loop"

\* Variant of the goal test that looks at the yaw error only.
reached_YawOnly(yaw_err, pitch_err) == Abs(yaw_err) <= err_thresh

\* The goal test of line 1001.
reached(yaw_err, pitch_err) ==
    Abs(yaw_err) <= err_thresh /\ Abs(pitch_err) <= err_thresh

(* Lines 972-984: the range checks, the centre case, entry of the loop.    *)
SetGimbalRotation ==
    /\ ctl.pc = "idle"
    /\ Callable
    /\ \E g \in Goals :
          LET yaw == g[1]
              pitch == g[2]
              c == [ctl EXCEPT !.yaw = yaw, !.pitch = pitch]
          IN  IF entry(yaw, pitch) = "reject"
              THEN /\ ctl' = [c EXCEPT !.pc = "returned"]
                   /\ UNCHANGED out_seq
              ELSE IF entry(yaw, pitch) = "centre"
              THEN /\ ctl' = [CtlSend(c, centerGimbalMsg(out_seq)) EXCEPT !.pc = "returned"]
                   /\ out_seq' = centerGimbalMsg(out_seq).seq
              ELSE /\ ctl' = [c EXCEPT !.pc = "loop"]
                   /\ UNCHANGED out_seq
    /\ UNCHANGED <<enc, dec, n_enc, call>>
    /\ UNCHANGED <<records, connected, stop, last_fw_seq, last_att_seq, pc, net, rx,
                   waited, probe_ok, read_seq>>

(* Line 987: requestGimbalAttitude at the top of every iteration.          *)
CtlRequestAtt ==
    /\ ctl.pc = "loop"
    /\ ctl.iter < MaxIters
    /\ ctl' = [CtlSend(ctl, gimbalAttitudeMsg(out_seq)) EXCEPT
                  !.pc = "check", !.iter = @ + 1, !.stale = FALSE]
    /\ out_seq' = gimbalAttitudeMsg(out_seq).seq
    /\ UNCHANGED <<enc, dec, n_enc, call>>
    /\ UNCHANGED <<records, connected, stop, last_fw_seq, last_att_seq, pc, net, rx,
                   waited, probe_ok, read_seq>>

\* Variant of the test that takes every record as new.
stale_Never(att_seq, last) == FALSE

\* The test of line 988.
stale(att_seq, last) == att_seq = last

(* Lines 988-991: a record whose seq was consumed before is answered by    *)
(* requestGimbalSpeed(0, 0) and continue.                                  *)
CtlCheck ==
    /\ ctl.pc = "check"
    /\ IF stale(records.att_msg.seq, last_att_seq)
       THEN /\ ctl' = [CtlSend(ctl, gimbalSpeedMsg(out_seq, 0, 0)) EXCEPT
                          !.pc = "loop", !.stale = TRUE]
            /\ out_seq' = gimbalSpeedMsg(out_seq, 0, 0).seq
       ELSE /\ ctl' = [ctl EXCEPT !.pc = "remember"]
            /\ UNCHANGED out_seq
    /\ UNCHANGED <<enc, dec, n_enc, call>>
    /\ UNCHANGED <<records, connected, stop, last_fw_seq, last_att_seq, pc, net, rx,
                   waited, probe_ok, read_seq>>

(* Line 993.                                                               *)
CtlRemember ==
    /\ ctl.pc = "remember"
    /\ last_att_seq' = records.att_msg.seq
    /\ ctl' = [ctl EXCEPT !.pc = "error"]
    /\ UNCHANGED codecVars
    /\ UNCHANGED <<records, connected, stop, last_fw_seq, pc, net, rx, waited, probe_ok, read_seq>>

(* Lines 995-996: the errors, from the record as it is now.                *)
CtlError ==
    /\ ctl.pc = "error"
    /\ ctl' = [ctl EXCEPT !.pc = "decide",
                          !.yaw_err = -(10 * ctl.yaw) + records.att_msg.yaw,
                          !.pitch_err = 10 * ctl.pitch - records.att_msg.pitch]
    /\ UNCHANGED codecVars
    /\ UNCHANGED <<records, connected, stop, last_fw_seq, last_att_seq, pc, net, rx,
                   waited, probe_ok, read_seq>>

(* Lines 1001-1012: within the threshold on both axes, zero speed and      *)
(* break; otherwise the proportional set points, then sleep(0.1).          *)
CtlDecide ==
    /\ ctl.pc = "decide"
    /\ IF reached(ctl.yaw_err, ctl.pitch_err)
       THEN /\ ctl' = [CtlSend(ctl, gimbalSpeedMsg(out_seq, 0, 0)) EXCEPT !.pc = "reached"]
            /\ out_seq' = gimbalSpeedMsg(out_seq, 0, 0).seq
       ELSE LET m == gimbalSpeedMsg(out_seq, speed_sp(ctl.yaw_err),
                                    speed_sp(ctl.pitch_err))
            IN  /\ ctl' = [CtlSend(ctl, m) EXCEPT !.pc = "loop"]
                /\ out_seq' = m.seq
    /\ UNCHANGED <<enc, dec, n_enc, call>>
    /\ UNCHANGED <<records, connected, stop, last_fw_seq, last_att_seq, pc, net, rx,
                   waited, probe_ok, read_seq>>

----------------------------------------------------------------------------
(* The device.  A frame as the gimbal sends it, in the layout decodeMsg    *)
(* reads: header, control, length, sequence (both low byte first),         *)
(* command id, payload, checksum.                                          *)

Byte(n) == <<n \div 16, n % 16>>

LE16(n) == Byte(n % 256) \o Byte(n \div 256)

DeviceFrame(data, cmd_id, seq) ==
    LET front == HEADER \o <<0, 2>> \o LE16(Len(data) \div 2) \o LE16(seq)
                 \o cmd_id \o data
    IN  front \o crc16_str_swap(front)

\* Firmware response payload: the code board and gimbal versions.
FwPayload == <<0, 1, 0, 0, 0, 0, 0, 0, 7, 0, 0, 3, 0, 2, 0, 0>>

\* An identifier outside the command set.
UNKNOWN_CMD == <<15, 14>>

AllCmds ==
    {ABSOLUTE_ZOOM_AUTO_FOCUS, AUTO_FOCUS, CENTER, FUNCTION_FEEDBACK_INFO,
     GIMBAL_ROTATION_SPEED, MANUAL_FOCUS, MANUAL_ZOOM_AUTO_FOCUS, PHOTO_AND_RECORD,
     REQUEST_GIMBAL_ATTITUDE, REQUEST_GIMBAL_CAMERA_FIRMWARE,
     REQUEST_GIMBAL_CAMERA_HARDWARE_ID, REQUEST_GIMBAL_CAMERA_PRESENT_WORKING_MODE,
     REQUEST_GIMBAL_CONFIGURATION_INFO, REQUEST_MAX_ZOOM_VALUE_IN_PRESENT,
     REQUEST_ZOOM_VALUE_IN_PRESENT, SEND_CONTROL_ANGLE_TO_GIMBAL, UNKNOWN_CMD}

\* A response payload for each command: attitude is six 16-bit words,
\* configuration six bytes, the zoom values two bytes, the rest one byte.
PayloadOf(cmd_id) ==
    IF cmd_id = REQUEST_GIMBAL_ATTITUDE
    THEN <<2, 12, 0, 1, 12, 14, 15, 15, 0, 5, 0, 0,
           1, 0, 0, 0, 15, 6, 15, 15, 0, 0, 0, 0>>
    ELSE IF cmd_id = REQUEST_GIMBAL_CAMERA_FIRMWARE THEN FwPayload
    ELSE IF cmd_id = REQUEST_GIMBAL_CAMERA_HARDWARE_ID THEN <<6, 11, 0, 1, 0, 2, 0, 3>>
    ELSE IF cmd_id = REQUEST_GIMBAL_CONFIGURATION_INFO
    THEN <<0, 0, 0, 0, 0, 0, 0, 1, 0, 2, 0, 1>>
    ELSE IF cmd_id = SEND_CONTROL_ANGLE_TO_GIMBAL
    THEN <<2, 12, 0, 1, 12, 14, 15, 15, 0, 5, 0, 0>>
    ELSE IF cmd_id \in {MANUAL_ZOOM_AUTO_FOCUS, REQUEST_MAX_ZOOM_VALUE_IN_PRESENT}
    THEN <<1, 4, 0, 0>>
    ELSE IF cmd_id = REQUEST_ZOOM_VALUE_IN_PRESENT THEN <<0, 5, 0, 4>>
    ELSE <<0, 1>>

Response(cmd_id, seq) == DeviceFrame(PayloadOf(cmd_id), cmd_id, seq)

\* What decodeMsg yields for Response(cmd_id, seq), as bufferCallback logs it.
Decoded(cmd_id, seq) == [cmd_id |-> cmd_id, data |-> PayloadOf(cmd_id), seq |-> seq]

\* One datagram carrying a response to every request a parse function handles.
RECURSIVE Concat(_)
Concat(frames) == IF frames = << >> THEN << >> ELSE Head(frames) \o Concat(Tail(frames))

Telemetry ==
    Concat(<<Response(ABSOLUTE_ZOOM_AUTO_FOCUS, 3), Response(AUTO_FOCUS, 3),
             Response(CENTER, 3), Response(FUNCTION_FEEDBACK_INFO, 3),
             Response(GIMBAL_ROTATION_SPEED, 3), Response(MANUAL_FOCUS, 3),
             Response(MANUAL_ZOOM_AUTO_FOCUS, 3), Response(REQUEST_GIMBAL_ATTITUDE, 3),
             Response(REQUEST_GIMBAL_CAMERA_FIRMWARE, 3),
             Response(REQUEST_GIMBAL_CAMERA_HARDWARE_ID, 3),
             Response(REQUEST_GIMBAL_CONFIGURATION_INFO, 3),
             Response(REQUEST_MAX_ZOOM_VALUE_IN_PRESENT, 3),
             Response(REQUEST_ZOOM_VALUE_IN_PRESENT, 3)>>)

\* What the device sends during a session.
SessionDatagrams ==
    {Response(REQUEST_GIMBAL_CAMERA_FIRMWARE, 1),
     Response(REQUEST_GIMBAL_CAMERA_PRESENT_WORKING_MODE, 1),
     Telemetry}

\* A datagram reaches the socket, which has a port once a request was sent;
\* the device sends the next one after the previous one was read.
Arrive ==
    /\ out_seq > 0
    /\ net = << >>
    /\ \E d \in SessionDatagrams : net' = Append(net, d)
    /\ UNCHANGED <<records, connected, stop, last_fw_seq, last_att_seq, pc, rx,
                   waited, probe_ok, read_seq>>
    /\ UNCHANGED <<codecVars, ctl>>

----------------------------------------------------------------------------
(* Specifications.                                                         *)

\* The session and its threads.
Init == CodecInit /\ SessionInit

Next ==
    \/ Connect
    \/ Tick
    \/ ConnectPoll
    \/ Disconnect
    \/ ConnStop
    \/ ConnProbe
    \/ ProbeCompare
    \/ ProbeRemember
    \/ RecvTop
    \/ BufferCallbackStep
    \/ RecvTimeout
    \/ GimbalInfoLoop
    \/ GimbalAttLoop
    \/ GimbalZoomLoop
    \/ Arrive

Spec == Init /\ [][Next]_vars

\* The session with a device that answers liveness probes only, and with
\* every thread scheduled again and again: the receive thread runs and its
\* recvfrom returns or times out (it is not in recvfrom for ever), the
\* liveness thread runs and its sleeps end, and a poller that would see
\* _connected False gets to see it.
ArriveFw ==
    /\ out_seq > 0
    /\ net = << >>
    /\ \E s \in {1, 2} : net' = <<Response(REQUEST_GIMBAL_CAMERA_FIRMWARE, s)>>
    /\ UNCHANGED <<records, connected, stop, last_fw_seq, last_att_seq, pc, rx,
                   waited, probe_ok, read_seq>>
    /\ UNCHANGED <<codecVars, ctl>>

NextLive ==
    \/ Connect
    \/ Tick
    \/ ConnectPoll
    \/ Disconnect
    \/ ConnStop
    \/ ConnProbe
    \/ ProbeCompare
    \/ ProbeRemember
    \/ RecvTop
    \/ BufferCallbackStep
    \/ RecvTimeout
    \/ GimbalInfoLoop
    \/ GimbalAttLoop
    \/ GimbalZoomLoop
    \/ ArriveFw

SpecLive ==
    /\ Init
    /\ [][NextLive]_vars
    /\ WF_vars(RecvTop \/ RecvTimeout)
    /\ []<>(pc.recv # "wait")
    /\ WF_vars(ConnStop \/ ProbeCompare \/ ProbeRemember)
    /\ WF_vars(~connected /\ GimbalInfoLoop)
    /\ WF_vars(~connected /\ GimbalAttLoop)
    /\ WF_vars(~connected /\ GimbalZoomLoop)

\* The codec alone.
InitCodec ==
    /\ out_seq \in SeqStarts
    /\ enc = NoEnc
    /\ dec = NoDec
    /\ n_enc = 0
    /\ call = NoCall
    /\ SessionInit

NextCodec ==
    \/ EncodeMsg
    \/ DecodeMsg
    \/ RequestAbsoluteZoom
    \/ RequestGimbalSpeed
    \/ ComputeDataLen
    \/ DecodeCorrupted

SpecCodec == InitCodec /\ [][NextCodec]_vars

\* The request operations on a socket that may fail, and the zoom encoder
\* they rest on.
NextSend == RequestOp \/ AbsoluteZoomMsg

SpecSend == InitCodec /\ [][NextSend]_vars

\* The receive thread alone, on datagrams that are already queued: the
\* state once connect() has started the threads and the first probe is out,
\* with the other threads asleep.
GarbageBytes == {<<5, 5>>, <<6, 6>>, <<0, 5>>, <<5, 6>>, <<6, 0>>, <<15, 15>>}

\* Longest garbage prefix, in bytes.
MaxGarbage == 3

RECURSIVE GarbageOfLen(_)
GarbageOfLen(n) ==
    IF n = 0 THEN {<< >>}
    ELSE {b \o g : b \in GarbageBytes, g \in GarbageOfLen(n - 1)}

Garbage == UNION {GarbageOfLen(n) : n \in 1..MaxGarbage}

\* The frames that follow garbage or arrive in two datagrams.
ProbeFrames == {Response(CENTER, 3), Response(REQUEST_GIMBAL_CAMERA_FIRMWARE, 7)}

\* A frame with one bit inverted before its checksum, and the valid frame
\* that follows it in the same datagram.
CorruptedPairs ==
    {[bad |-> FlipBit(Response(CENTER, 4), i, b),
      good |-> Response(REQUEST_GIMBAL_CAMERA_FIRMWARE, 5)] :
        i \in CorruptAt, b \in {1, 8}}

Scenarios ==
    {<<g \o f>> : g \in Garbage, f \in ProbeFrames}
    \cup {<<p.bad \o p.good>> : p \in CorruptedPairs}
    \cup {<<Response(c1, 4) \o Response(c2, 5)>> : c1 \in AllCmds, c2 \in AllCmds}
    \cup {<<Response(c, 4)>> : c \in AllCmds}
    \cup UNION {{<<PySlice(f, 0, 2 * k), PyFrom(f, 2 * k)>> :
                    k \in 1..(Len(f) \div 2 - 1)} : f \in ProbeFrames}

InitFrames ==
    /\ out_seq = 1
    /\ enc = NoEnc
    /\ dec = NoDec
    /\ n_enc = 0
    /\ records = Sentinel
    /\ connected = FALSE
    /\ stop = FALSE
    /\ last_fw_seq = 0
    /\ last_att_seq = -1
    /\ pc = [main |-> "connecting", recv |-> "run", conn |-> "probe_sleep",
             info |-> "idle", att |-> "idle", zoom |-> "idle"]
    /\ net \in Scenarios
    /\ rx = NoRx
    /\ waited = FALSE
    /\ probe_ok = FALSE
    /\ call = NoCall
    /\ ctl = NoCtl
    /\ read_seq = NoRead

NextFrames == RecvTop \/ BufferCallbackStep \/ RecvTimeout

SpecFrames == InitFrames /\ [][NextFrames]_vars

\* The controller, called on a session that never connected or on a
\* connected one whose receive and liveness threads run; the telemetry
\* pollers are asleep.
Connected1 == bufferCallback(Sentinel, Response(REQUEST_GIMBAL_CAMERA_FIRMWARE, 1))

\* What the device sends while the controller runs: attitude responses
\* and the answer to a liveness probe.
\* The second attitude is yaw 30.3, pitch -5.7 degrees.
CtrlDatagrams ==
    {Response(REQUEST_GIMBAL_ATTITUDE, 1),
     DeviceFrame(<<2, 15, 0, 1, 12, 7, 15, 15, 0, 5, 0, 0,
                   1, 0, 0, 0, 15, 6, 15, 15, 0, 0, 0, 0>>, REQUEST_GIMBAL_ATTITUDE, 2),
     Response(REQUEST_GIMBAL_CAMERA_FIRMWARE, 2)}

ArriveCtrl ==
    /\ ctl.n > 0
    /\ pc.recv # "idle"
    /\ net = << >>
    /\ \E d \in CtrlDatagrams : net' = Append(net, d)
    /\ UNCHANGED <<records, connected, stop, last_fw_seq, last_att_seq, pc, rx,
                   waited, probe_ok, read_seq>>
    /\ UNCHANGED <<codecVars, ctl>>

InitCtrl ==
    /\ enc = NoEnc
    /\ dec = NoDec
    /\ n_enc = 0
    /\ call = NoCall
    /\ stop = FALSE
    /\ last_att_seq = -1
    /\ net = << >>
    /\ waited = FALSE
    /\ ctl = NoCtl
    /\ read_seq = NoRead
    /\ \/ /\ out_seq = 0
          /\ records = Sentinel
          /\ connected = FALSE
          /\ last_fw_seq = 0
          /\ pc = [main |-> "idle", recv |-> "idle", conn |-> "idle",
                   info |-> "idle", att |-> "idle", zoom |-> "idle"]
          /\ rx = NoRx
          /\ probe_ok = FALSE
       \/ /\ out_seq = 1
          /\ records = Connected1.rec
          /\ connected = TRUE
          /\ last_fw_seq = 1
          /\ pc = [main |-> "returned_true", recv |-> "run", conn |-> "top",
                   info |-> "top", att |-> "top", zoom |-> "top"]
          /\ rx = [buff |-> Response(REQUEST_GIMBAL_CAMERA_FIRMWARE, 1),
                   decoded |-> Connected1.decoded, raised |-> FALSE]
          /\ probe_ok = TRUE

NextCtrl ==
    \/ SetGimbalRotation
    \/ CtlRequestAtt
    \/ CtlCheck
    \/ CtlRemember
    \/ CtlError
    \/ CtlDecide
    \/ ArriveCtrl
    \/ RecvTop
    \/ BufferCallbackStep
    \/ RecvTimeout
    \/ ConnProbe
    \/ ProbeCompare
    \/ ProbeRemember

SpecCtrl == InitCtrl /\ [][NextCtrl]_vars

\* The receive thread at the granularity of the assignments of
\* parseRequestGimbalAttitudeMsg, with the controller on the caller's
\* thread.  The device answers attitude requests only: two complete
\* responses (seq 1: yaw 30.0, pitch -5.0; seq 2: yaw 30.3, pitch -5.7) and
\* one whose payload ends after the yaw word (seq 3, yaw 15.0).
AttDatagrams ==
    [s \in 1..3 |->
        IF s = 1 THEN Response(REQUEST_GIMBAL_ATTITUDE, 1)
        ELSE IF s = 2
        THEN DeviceFrame(<<2, 15, 0, 1, 12, 7, 15, 15, 0, 5, 0, 0,
                           1, 0, 0, 0, 15, 6, 15, 15, 0, 0, 0, 0>>,
                         REQUEST_GIMBAL_ATTITUDE, 2)
        ELSE DeviceFrame(<<9, 6, 0, 0>>, REQUEST_GIMBAL_ATTITUDE, 3)]

\* The attitude record after the response of seq s was decoded whole.
AttitudeOf(s) == bufferCallback(Sentinel, AttDatagrams[s]).rec.att_msg

ArriveAtt ==
    /\ ctl.n > 0
    /\ pc.recv # "idle"
    /\ net = << >>
    /\ \E s \in DOMAIN AttDatagrams : net' = <<AttDatagrams[s]>>
    /\ UNCHANGED <<records, connected, stop, last_fw_seq, last_att_seq, pc, rx,
                   waited, probe_ok, read_seq>>
    /\ UNCHANGED <<codecVars, ctl>>

(* SIYISDK.bufferCallback up to the first assignment of the parse          *)
(* function (line 711): the record carries the new seq, its other fields   *)
(* are still the old ones.                                                 *)
ParseAttSeq ==
    /\ pc.recv = "wait"
    /\ net # << >>
    /\ records' = [records EXCEPT !.att_msg.seq =
                       bufferCallback(records, Head(net)).rec.att_msg.seq]
    /\ pc' = [pc EXCEPT !.recv = "parse"]
    /\ UNCHANGED <<connected, stop, last_fw_seq, last_att_seq, net, rx, waited,
                   probe_ok, read_seq>>
    /\ UNCHANGED <<codecVars, ctl>>

(* The remaining assignments (lines 712-717) and the end of the scan.      *)
ParseAttRest ==
    /\ pc.recv = "parse"
    /\ LET r == bufferCallback(records, Head(net))
       IN  /\ records' = r.rec
           /\ rx' = [buff |-> Head(net), decoded |-> r.decoded, raised |-> r.raised]
    /\ pc' = [pc EXCEPT !.recv = "run"]
    /\ net' = Tail(net)
    /\ UNCHANGED <<connected, stop, last_fw_seq, last_att_seq, waited, probe_ok, read_seq>>
    /\ UNCHANGED <<codecVars, ctl>>

NextAtt ==
    \/ SetGimbalRotation
    \/ CtlRequestAtt
    \/ CtlCheck
    \/ CtlRemember
    \/ CtlError
    \/ CtlDecide
    \/ ArriveAtt
    \/ RecvTop
    \/ ParseAttSeq
    \/ ParseAttRest
    \/ RecvTimeout

SpecAtt == InitCtrl /\ [][NextAtt]_vars

\* Request operations of concurrently running tasks on the one outbound
\* codec (_out_msg, made once in __init__), at the granularity of the read
\* and the write of self._seq; no lock is taken around encodeMsg.

(* SIYIMESSAGE.encodeMsg, line 335: a task evaluates self._seq, the        *)
(* argument of incrementSEQ.                                               *)
EncodeRead ==
    /\ \E t \in Tasks :
          /\ read_seq[t] = -1
          /\ n_enc + Cardinality({u \in Tasks : read_seq[u] # -1}) < MaxSends
          /\ read_seq' = [read_seq EXCEPT ![t] = out_seq]
    /\ UNCHANGED codecVars
    /\ UNCHANGED <<records, connected, stop, last_fw_seq, last_att_seq, pc, net, rx,
                   waited, probe_ok, ctl>>

(* SIYIMESSAGE.incrementSEQ, lines 200-201: self._seq = val + 1 from the   *)
(* value the task read; the rest of encodeMsg does not touch self._seq.    *)
EncodeIncrement ==
    /\ \E t \in Tasks :
          /\ read_seq[t] # -1
          /\ out_seq' = incrementSEQ(read_seq[t]).seq
          /\ read_seq' = [read_seq EXCEPT ![t] = -1]
    /\ n_enc' = n_enc + 1
    /\ UNCHANGED <<enc, dec, call>>
    /\ UNCHANGED <<records, connected, stop, last_fw_seq, last_att_seq, pc, net, rx,
                   waited, probe_ok, ctl>>

NextSeq == EncodeRead \/ EncodeIncrement

SpecSeq == Init /\ [][NextSeq]_vars

----------------------------------------------------------------------------
(* Properties.                                                             *)

\* What bufferCallback logs for a complete, well-formed frame f.
FrameOf(f) ==
    [cmd_id |-> decodeMsg(f).cmd_id, data |-> decodeMsg(f).data,
     seq |-> decodeMsg(f).seq]

\* The length in hex characters that the length field at the start of b declares.
FrameLen(b) ==
    MINIMUM_DATA_LENGTH + 2 * HexVal(PySlice(b, 8, 10) \o PySlice(b, 6, 8))

\* f is exactly one frame: header marker, declared length, matching checksum.
WellFormed(f) ==
    /\ Len(f) >= MINIMUM_DATA_LENGTH
    /\ PySlice(f, 0, 4) = HEADER
    /\ Len(f) = FrameLen(f)
    /\ decodeMsg(f).valid

(* C1 - Round trip: decoding the frame encodeMsg produced gives back the   *)
(* payload, the command id, and the value the sequence counter holds       *)
(* after that call.                                                        *)
C1_RoundTrip ==
    (dec.done /\ Len(enc.data) % 2 = 0) =>
        /\ dec.res.valid
        /\ dec.res.data = enc.data
        /\ dec.res.cmd_id = enc.cmd_id
        /\ dec.res.seq = out_seq

(* C2 - Sequence wrap: the counter stays within 0..65535, and the          *)
(* increment from 65535 leaves it at 0 and returns the text of 0.          *)
C2_SequenceWrap ==
    /\ out_seq \in 0..65535
    /\ (enc.called /\ enc.before = 65535) => (out_seq = 0 /\ enc.seq_str = ZEROS)

(* C3 - Partial frame: a datagram holding the header and length field of   *)
(* a frame but not all of it decodes nothing, and when the next datagram   *)
(* brings the rest, that call of bufferCallback decodes exactly the frame. *)
C3_PartialFrame ==
    [][\A f \in ProbeFrames :
          (/\ pc.recv = "wait"
           /\ net # << >>
           /\ Len(rx.buff) >= 10
           /\ Head(net) # << >>
           /\ rx.buff \o Head(net) = f)
          => /\ rx.decoded = << >>
             /\ rx'.decoded = <<FrameOf(f)>>]_vars

(* C4 - Resynchronization: a datagram of garbage bytes followed by one     *)
(* valid frame decodes exactly that frame.                                 *)
C4_Resynchronization ==
    \A g \in Garbage, f \in ProbeFrames :
        rx.buff = g \o f => (rx.decoded = <<FrameOf(f)>> /\ ~rx.raised)

(* C5 - Multi-frame batching: a datagram of two valid frames back to back  *)
(* decodes and dispatches both, the first before the second, and nothing   *)
(* else.                                                                   *)
C5_MultiFrame ==
    LET n1 == FrameLen(rx.buff)
        first == PySlice(rx.buff, 0, n1)
        second == PyFrom(rx.buff, n1)
    IN  (WellFormed(first) /\ WellFormed(second))
            => rx.decoded = <<FrameOf(first), FrameOf(second)>>

(* C6 - Receive timeout is not fatal: a receive that times out does not    *)
(* end the receive loop.                                                   *)
C6_TimeoutNotFatal == pc.recv # "timeout"

(* C7 - Receive-path containment: no received frame ends the receive       *)
(* loop; it runs until the stop flag is set.                               *)
C7_Containment ==
    /\ pc.recv # "raised"
    /\ ~rx.raised
    /\ pc.recv = "done" => stop

(* C8 - Liveness probe rule: the comparison of a probe sets the connection *)
(* flag to TRUE exactly when the firmware record's sequence number differs *)
(* from the remembered one and its version string is not empty; the        *)
(* remembered sequence changes only after a comparison that succeeded, to  *)
(* the record's sequence number.                                           *)
C8_ProbeRule ==
    [][/\ (pc.conn = "probe_sleep" /\ pc'.conn # "probe_sleep")
            => /\ connected' = (/\ records.fw_msg.seq # last_fw_seq
                                /\ records.fw_msg.gimbal_firmware_ver # << >>)
               /\ (pc'.conn = "remember") = connected'
       /\ (last_fw_seq' # last_fw_seq)
            => /\ pc.conn = "remember"
               /\ probe_ok
               /\ last_fw_seq' = records.fw_msg.seq]_vars

\* A probe succeeded and its sequence number was remembered; a later one failed.
C8_Witness ==
    /\ last_fw_seq # 0
    /\ pc.conn = "top"
    /\ ~probe_ok
    /\ ~connected

(* C9 - connect never raises; it returns True only on seeing the           *)
(* connection flag TRUE, with the three pollers started, and False only    *)
(* once max_wait has passed with the flag FALSE, with disconnect() done.   *)
C9_ConnectContract ==
    [][/\ pc'.main # "raised"
       /\ (pc.main = "connecting" /\ pc'.main = "returned_true")
            => /\ connected
               /\ pc'.info = "top" /\ pc'.att = "top" /\ pc'.zoom = "top"
       /\ (pc.main = "connecting" /\ pc'.main = "returned_false")
            => /\ waited
               /\ ~connected
               /\ stop'
               /\ records' = Sentinel]_vars

(* C10 - disconnect sets the stop flag, clears the connection flag and     *)
(* puts every cached record back to its construction-time value; a second  *)
(* disconnect right after changes nothing.                                 *)
C10_DisconnectResets ==
    [][Disconnect =>
          /\ stop'
          /\ ~connected'
          /\ records' = Sentinel
          /\ disconnect([stop |-> stop', connected |-> connected',
                         records |-> records'])
               = [stop |-> stop', connected |-> connected', records |-> records']
          /\ (stop /\ ~connected /\ records = Sentinel) => UNCHANGED vars]_vars

\* disconnect has run after the records were filled by the telemetry batch.
C10_Witness ==
    /\ stop
    /\ ~connected
    /\ records = Sentinel
    /\ rx.buff = Telemetry
    /\ pc.main = "returned_true"
    /\ pc.conn = "top"

(* C12 - Each telemetry poller sends its request only in a turn in which   *)
(* it saw the connection flag TRUE; in the first turn in which it sees the *)
(* flag FALSE it ends, and it never runs again.                            *)
C12_PollerGate ==
    [][/\ (out_seq' # out_seq /\ pc' = pc) => connected
       /\ \A t \in Pollers :
            /\ (pc[t] = "top" /\ pc'[t] # "top") => (~connected /\ pc'[t] = "done")
            /\ (pc[t] = "done") => (pc'[t] = "done")]_vars

\* The three pollers were started, requests were sent, and each poller has
\* ended on seeing the flag FALSE.
C12_Witness ==
    /\ \A t \in Pollers : pc[t] = "done"
    /\ ~connected
    /\ out_seq = MaxSends

(* C20 - Cancellation: no background loop sends a request or takes a       *)
(* datagram in an iteration that begins after the stop flag was set.       *)
C20_Cancellation ==
    [][stop =>
          /\ out_seq' = out_seq
          /\ (pc.recv = "run") => (pc'.recv # "wait")]_vars

\* v limited to the range lo..hi.
Clamp(v, lo, hi) == IF v > hi THEN hi ELSE IF v < lo THEN lo ELSE v

(* C14 - Range clamping: an absolute-zoom request with integer part above  *)
(* 30 sends a frame whose payload carries integer part 30, and a speed     *)
(* request sends a frame whose payload carries each speed limited to       *)
(* -100..100.                                                              *)
C14_RangeClamping ==
    /\ (call.op = "requestAbsoluteZoom" /\ call.a > 30 /\ call.b \in 0..9)
          => (call.ok /\ PySlice(call.out, 16, 18) = Byte(30))
    /\ (call.op = "requestGimbalSpeed")
          => /\ call.ok
             /\ PySlice(call.out, 16, 18) = Byte((Clamp(call.a, -100, 100) + 256) % 256)
             /\ PySlice(call.out, 18, 20) = Byte((Clamp(call.b, -100, 100) + 256) % 256)

(* C15 - Checksum sensitivity: inverting any single bit before the         *)
(* checksum field of a frame encodeMsg produced makes decodeMsg return no  *)
(* result.                                                                 *)
C15_ChecksumSensitivity ==
    /\ enc.called =>
          \A i \in 1..(Len(enc.msg) - 4), b \in {1, 2, 4, 8} :
              ~decodeMsg(FlipBit(enc.msg, i, b)).valid
    /\ (call.op = "decodeCorrupted") => ~call.ok

\* A frame with a bit of its length field inverted was handed to decodeMsg.
C15_Witness ==
    /\ call.op = "decodeCorrupted"
    /\ call.a \in 7..10
    /\ ~call.ok
    /\ Len(enc.data) > 0

(* C16 - Length encoding: computeDataLen returns the byte count of the     *)
(* payload (an odd number of hex characters counted after padding with one *)
(* zero; 0 for the empty payload), as 2 bytes, low byte first, for every   *)
(* payload of 0..65535 bytes.                                              *)
C16_LengthEncoding ==
    (call.op = "computeDataLen") => call.out = LE16((call.a + 1) \div 2)

(* C17 - Frame invariant: in every frame encodeMsg produced the length     *)
(* field equals the number of bytes of the payload region, so the frame    *)
(* is 10 + data_length bytes long.                                         *)
C17_FrameInvariant ==
    enc.called =>
        /\ Len(enc.msg) = 2 * (10 + (FrameLen(enc.msg) - MINIMUM_DATA_LENGTH) \div 2)
        /\ FrameLen(enc.msg) - MINIMUM_DATA_LENGTH = Len(enc.data)

(* C18 - Decode failures are skipped: when a datagram holds a frame with   *)
(* one bit inverted before its checksum (the length field included)        *)
(* followed by a valid frame, bufferCallback drops the bad frame and       *)
(* decodes exactly the valid one.                                          *)
C18_DecodeFailureSkipped ==
    \A p \in CorruptedPairs :
        (rx.buff = p.bad \o p.good) => (rx.decoded = <<FrameOf(p.good)>>)

(* C19 - Records carry the originating sequence number: after a datagram   *)
(* that is one well-formed frame of a handled command was parsed without   *)
(* an exception, the seq field of every record that parse function writes  *)
(* equals the sequence number of the frame.                                *)
C19_RecordSeq ==
    (WellFormed(rx.buff) /\ ~rx.raised /\ Len(rx.decoded) = 1)
        => \A s \in WrittenSeqs(records, rx.decoded[1].cmd_id) : s = rx.decoded[1].seq

ZeroSpeed == [cmd_id |-> GIMBAL_ROTATION_SPEED, data |-> <<0, 0, 0, 0>>]

(* C11 - The controller gates on CONNECTED: an iteration that begins while *)
(* the session is not connected sends no attitude request and ends the     *)
(* controller.                                                             *)
C11_ControllerGate ==
    [][(ctl.pc = "loop" /\ ctl' # ctl /\ ~connected)
          => (ctl'.n = ctl.n /\ ctl'.pc \in {"returned", "reached"})]_vars

(* C13 - Staleness: when the test of an iteration finds the seq of the     *)
(* cached attitude record equal to the last consumed one, the controller   *)
(* sends zero speed on both axes, leaves its errors and the last consumed  *)
(* seq as they are, and goes to the next iteration; an iteration marked    *)
(* stale is never past its test.                                           *)
C13_Staleness ==
    [][/\ (ctl.pc = "check" /\ ctl' # ctl /\ records.att_msg.seq = last_att_seq)
            => /\ ctl'.cmd = ZeroSpeed
               /\ ctl'.n = ctl.n + 1
               /\ last_att_seq' = last_att_seq
               /\ ctl'.yaw_err = ctl.yaw_err
               /\ ctl'.pitch_err = ctl.pitch_err
               /\ ctl'.pc = "loop"
               /\ ctl'.stale
       /\ (ctl.pc \in {"remember", "error", "decide"} /\ ctl' # ctl)
            => (~ctl.stale /\ ~ctl'.stale)
       /\ (ctl'.pc = "reached") => ~ctl'.stale]_vars

C13_Witness ==
    /\ ctl.stale
    /\ ctl.pc = "loop"
    /\ ctl.cmd = ZeroSpeed
    /\ connected
    /\ last_att_seq = 1
    /\ records.att_msg.seq = 1
    /\ ctl.yaw_err # 0

C22_EncodeFailure ==
    (call.op = "request" /\ call.b = 0) => (~call.sent /\ ~call.ok)

(* C23 - Unknown command id: a valid frame whose command id is outside     *)
(* the command set changes no cached record and not the connection flag,   *)
(* raises nothing, and the scan goes on: the frame that follows it in the  *)
(* datagram is decoded and parsed.                                         *)
C23_UnknownCommand ==
    LET n1 == FrameLen(rx.buff)
        first == PySlice(rx.buff, 0, n1)
        second == PyFrom(rx.buff, n1)
    IN  (WellFormed(first) /\ FrameOf(first).cmd_id = UNKNOWN_CMD)
          => /\ ~connected
             /\ (second = << >>)
                  => /\ records = Sentinel
                     /\ ~rx.raised
                     /\ pc.recv # "raised"
                     /\ rx.decoded = <<FrameOf(first)>>
             /\ (WellFormed(second) /\ FrameOf(second).cmd_id \notin RaisingCmds)
                  => /\ ~rx.raised
                     /\ pc.recv # "raised"
                     /\ rx.decoded = <<FrameOf(first), FrameOf(second)>>
                     /\ records = Dispatch(Sentinel, FrameOf(second).cmd_id,
                                           FrameOf(second).data, FrameOf(second).seq).rec

C23_Witness ==
    /\ rx.buff = Response(UNKNOWN_CMD, 4) \o Response(CENTER, 5)
    /\ Len(rx.decoded) = 2
    /\ records.center_msg.seq = 5
    /\ pc.recv = "run"

(* C24 - Rotation target validation: setGimbalRotation with pitch outside  *)
(* -90..25 or yaw outside -270..270 returns at once: no frame is sent and  *)
(* the sequence counter, the last consumed attitude seq and the cached     *)
(* records stay as they were.                                              *)
C24_TargetValidation ==
    [][(/\ ctl.pc = "idle"
        /\ ctl'.pc # "idle"
        /\ (ctl'.pitch > 25 \/ ctl'.pitch < -90 \/ ctl'.yaw > 270 \/ ctl'.yaw < -270))
          => /\ ctl'.pc = "returned"
             /\ ctl'.n = 0
             /\ ctl'.cmd = NoCmd
             /\ out_seq' = out_seq
             /\ last_att_seq' = last_att_seq
             /\ records' = records]_vars

C24_Witness ==
    ctl.pc = "returned" /\ ctl.yaw = -271 /\ ctl.n = 0 /\ connected

(* C25 - Goal reached: the loop of setGimbalRotation is left only from an  *)
(* iteration whose test found the attitude record new and whose errors are *)
(* both within the threshold, and the frame sent on leaving is a speed     *)
(* command with zero on both axes.                                         *)
C25_GoalReached ==
    [][(ctl'.pc = "reached" /\ ctl.pc # "reached")
          => /\ ctl.pc = "decide"
             /\ ~ctl.stale
             /\ Abs(ctl.yaw_err) <= 10
             /\ Abs(ctl.pitch_err) <= 10
             /\ ctl'.cmd = ZeroSpeed
             /\ ctl'.n = ctl.n + 1]_vars

C25_Witness ==
    /\ ctl.pc = "reached"
    /\ ctl.yaw = 30
    /\ ctl.pitch = -5
    /\ ctl.yaw_err = 3
    /\ ctl.pitch_err = 7
    /\ ctl.cmd = ZeroSpeed

\* gain * err for err in tenths of a degree, limited to -100..100 and then
\* cut to an integer.
Setpoint(err) ==
    LET c == Clamp(4 * err, -1000, 1000)
    IN  IF c >= 0 THEN c \div 10 ELSE -((-c) \div 10)

(* C26 - Speed set points: the errors are current yaw minus target yaw and *)
(* target pitch minus current pitch, and the speed command of an iteration *)
(* that read a new record and did not reach the goal carries, per axis,    *)
(* gain * error limited to -100..100 and cut to an integer.                *)
C26_SpeedSetpoints ==
    [][/\ (ctl.pc = "error" /\ ctl'.pc = "decide")
            => /\ ctl'.yaw_err = records.att_msg.yaw - 10 * ctl.yaw
               /\ ctl'.pitch_err = 10 * ctl.pitch - records.att_msg.pitch
       /\ (ctl.pc = "decide" /\ ctl'.pc = "loop")
            => /\ Setpoint(ctl.yaw_err) \in -100..100
               /\ Setpoint(ctl.pitch_err) \in -100..100
               /\ ctl'.cmd.cmd_id = GIMBAL_ROTATION_SPEED
               /\ ctl'.cmd.data = Byte((Setpoint(ctl.yaw_err) + 256) % 256)
                                     \o Byte((Setpoint(ctl.pitch_err) + 256) % 256)]_vars

C26_Witness ==
    /\ ctl.pc = "loop"
    /\ ctl.yaw_err = -297
    /\ ctl.pitch_err = -43
    /\ ctl.cmd = [cmd_id |-> GIMBAL_ROTATION_SPEED, data |-> <<9, 12, 14, 15>>]

(* C27 - Centre: setGimbalRotation(0, 0) sends one frame, the centre       *)
(* command, and returns; it sends nothing after that.                      *)
C27_CenterCase ==
    [][/\ (ctl.pc = "idle" /\ ctl'.pc # "idle" /\ ctl'.yaw = 0 /\ ctl'.pitch = 0)
            => /\ ctl'.pc = "returned"
               /\ ctl'.n = 1
               /\ ctl'.cmd = [cmd_id |-> CENTER, data |-> <<0, 1>>]
               /\ out_seq' = out_seq + 1
       /\ (ctl.pc = "returned") => (ctl' = ctl)]_vars

C27_Witness ==
    ctl.pc = "returned" /\ ctl.n = 1 /\ ctl.cmd.cmd_id = CENTER /\ ctl.yaw = 0

(* C28 - Sequence encoding: for a counter value in 0..65534 incrementSEQ   *)
(* returns the text of that value plus one as two bytes, low byte first.   *)
C28_SequenceEncoding ==
    (enc.called /\ enc.before \in 0..65534) => enc.seq_str = LE16(enc.before + 1)

(* C29 - Absolute-zoom encoder: the payload of absoluteZoomMsg(z, f) holds *)
(* z limited to 1..30 as its first byte and f limited to 0..9 as its       *)
(* second byte.                                                            *)
C29_ZoomClamping ==
    (call.op = "absoluteZoomMsg")
        => /\ PySlice(call.out, 16, 18) = Byte(Clamp(call.a, 1, 30))
           /\ PySlice(call.out, 18, 20) = Byte(Clamp(call.b, 0, 9))

\* No background loop is running: each one was never started or has ended.
AllEnded ==
    /\ pc.recv \in {"idle", "done", "timeout", "raised"}
    /\ pc.conn \in {"idle", "done"}
    /\ \A t \in Pollers : pc[t] \in {"idle", "done"}

(* C30 - Shutdown liveness: once disconnect() was called, the receive      *)
(* loop, the liveness loop and the pollers that were started all end, and  *)
(* from some point on the connection flag is false for ever.               *)
C30_ShutdownLiveness == stop ~> [](AllEnded /\ ~connected)

C30_Witness ==
    /\ stop
    /\ ~connected
    /\ pc.recv = "done"
    /\ pc.conn = "done"
    /\ \A t \in Pollers : pc[t] = "done"


(* C31 - Once disconnect() has returned, isConnected() is false and every  *)
(* cached record holds its sentinel value in every later state, whatever   *)
(* the liveness probe and the receive thread were doing when it ran.       *)
C31_DisconnectIsFinal ==
    stop => (~connected /\ records = Sentinel)

(* C32 - Polling survives a missed probe: while connect() has returned     *)
(* True, disconnect() was not called and the session is connected, every   *)
(* telemetry poller is in its loop.                                        *)
C32_PollingSurvives ==
    (pc.main = "returned_true" /\ ~stop /\ connected)
        => \A t \in Pollers : pc[t] = "top"

(* C33 - The controller does not act on attitude values that were not     *)
(* received: while the attitude record is the one made at construction,   *)
(* it has sent no speed command other than zero speed and has not left    *)
(* its loop with the goal reached.                                         *)
C33_NoSentinelAttitude ==
    (records.att_msg = Sentinel.att_msg)
        => /\ ctl.pc # "reached"
           /\ (ctl.cmd.cmd_id = GIMBAL_ROTATION_SPEED) => (ctl.cmd = ZeroSpeed)

(* C34 - No torn attitude read: when the controller has taken the seq of  *)
(* a complete response as fresh and has read yaw and pitch, the values it  *)
(* read are the ones that response carried.                                *)
C34_NoTornRead ==
    (ctl.pc = "decide" /\ last_att_seq \in {1, 2})
        => /\ ctl.yaw_err + 10 * ctl.yaw = AttitudeOf(last_att_seq).yaw
           /\ 10 * ctl.pitch - ctl.pitch_err = AttitudeOf(last_att_seq).pitch

(* C35 - A failed decode leaves the record unchanged: the attitude record  *)
(* never carries the seq of the response whose payload was too short, and  *)
(* the controller never takes that seq as a fresh attitude.                *)
C35_FailedDecodeKeepsRecord ==
    /\ records.att_msg.seq # 3
    /\ last_att_seq # 3

(* C36 - No lost sequence updates: when no request operation is inside    *)
(* encodeMsg, the outbound counter has advanced by the number of           *)
(* operations that were issued.                                            *)
C36_NoLostUpdate ==
    (\A t \in Tasks : read_seq[t] = -1) => (out_seq = n_enc)

====
